---- MODULE Spec2Model ----
(***************************************************************************)
(* pelican-katex: the managed render-server process (RenderServer) and the *)
(* length-prefixed request/response channel of pelican_katex/rendering.py. *)
(*                                                                         *)
(* The specifications share the variables:                                 *)
(*   Spec        the life cycle of the server: RenderServer.get / start /  *)
(*               stop, the atexit hook, the worker process creating its    *)
(*               transport or exiting.  server.render is one step here.    *)
(*   FairSpec    Spec, with the program's own steps taken eventually.      *)
(*   SpecRender  RenderServer.render and render_latex byte by byte on a    *)
(*               started server: sends, the length prefix, the payload     *)
(*               loop, the receive buffer, the socket deadlines.           *)
(*                                                                         *)
(* Time is a counter of clock ticks (time.monotonic()); the timeouts are   *)
(* numbers of ticks.  Text is a sequence of one-character strings.         *)
(***************************************************************************)
EXTENDS Integers, Sequences, FiniteSets, TLC

(***************************************************************************)
(* Bounds of the model.                                                    *)
(***************************************************************************)
\* RenderServer.start is attempted at most this often.
MaxStarts == 2
\* time.sleep(ONE_MILLISECOND) returns after 1..MaxSleep ticks.
MaxSleep == 2
\* stop is invoked at most this often by the program itself (the atexit hook
\* comes on top).
MaxStops == 1
\* KATEX_STARTUP_TIMEOUT (a setting, 1.0 s by default), in ticks.
KATEX_STARTUP_TIMEOUT == 2

\* KATEX_RENDER_TIMEOUT (a setting, 1.0 s by default), in ticks.
KATEX_RENDER_TIMEOUT == 2
\* The size of the receive buffer a new RenderServer allocates (100 * 1024 in
\* the program), scaled to the responses of the model.
BUFFER_INITIAL == 6
\* The render calls of SpecRender.
MaxCalls == 2
\* A sendall that succeeds takes at most this many ticks.
MaxSendTicks == 1
\* Between two statements of render at most this many ticks pass.
MaxStepTicks == 1

\* The clock never needs to go further than this in Spec: every start attempt
\* ends within its timeout, one sleep and one tick.
ClockCap == (MaxStarts + 1) * (KATEX_STARTUP_TIMEOUT + MaxSleep + 2)

(***************************************************************************)
(* Values.                                                                 *)
(***************************************************************************)
\* RENDER_SERVER = None
None == 0

\* The longest Markdown text.
MaxText == 6

\* The longest content of a directive.
MaxBlock == 2

\* The ports free_port can return.
MaxPorts == 2

\* The LaTeX inputs of the calls.
Latex == { <<"x">>, <<"x", "y">> }

Min(a, b) == IF a < b THEN a ELSE b
Max(a, b) == IF a > b THEN a ELSE b

\* str.format with one positional argument: the argument's text replaces {}.
RECURSIVE Format(_, _)
Format(template, arg) ==
    IF template = <<>> THEN <<>>
    ELSE IF Head(template) = "{}" THEN arg \o Format(Tail(template), arg)
    ELSE <<Head(template)>> \o Format(Tail(template), arg)

TIMEOUT_EXPIRED_TEMPLATE ==
    << "Rendering ", "{}", " took too long. Consider increasing KATEX_RENDER_TIMEOUT" >>

STARTUP_TIMEOUT_EXPIRED_TEMPLATE ==
    << "KaTeX server did not start up after ", "{}", " seconds. ",
       "Consider increasing KATEX_STARTUP_TIMEOUT." >>

\* What a call ends with: a returned value or a raised exception.  val is the
\* returned text, or the exception's message.
Return(v) == [kind |-> "return", type |-> "str", val |-> v]
Raise(type, message) == [kind |-> "raise", type |-> type, val |-> message]
KaTeXError(message) == Raise("KaTeXError", message)

\* RenderServer.timeout_error is a staticmethod declared with the parameters
\* (self, timeout); args are the positional arguments of a call.  A call
\* that passes one argument binds it to self and fails for the missing one.
timeout_error(args) ==
    IF Len(args) = 2
    THEN KaTeXError(Format(STARTUP_TIMEOUT_EXPIRED_TEMPLATE, <<ToString(args[2])>>))
    ELSE Raise("TypeError",
               <<"timeout_error() missing 1 required positional argument: 'timeout'">>)

\* The loops of start give up when this holds of time.monotonic().
StartupExpiredNever(t, startup, limit) == FALSE
StartupExpired(t, startup, limit) == t - startup > limit

\* KATEX_DEFAULT_OPTIONS as the module defines it.
DefaultOptions == [throwOnError |-> FALSE]

\* The options arguments of render_latex: None, or a mapping.
CallerOptions ==
    { <<>>,
      << [k \in {} |-> TRUE] >>,
      << [throwOnError |-> TRUE] >>,
      << [displayMode |-> TRUE] >> }

\* dict.update: the entries of other replace or extend those of d.
DictUpdate(d, other) ==
    [k \in DOMAIN d \cup DOMAIN other |-> IF k \in DOMAIN other THEN other[k] ELSE d[k]]

\* render_latex: katex_options = KATEX_DEFAULT_OPTIONS, and with options
\* given, a copy of it updated with them.  The result is the module's
\* mapping after the statements and the mapping of the request.
MergeOptionsInPlace(defaults, o) ==
    IF o = <<>> THEN [defaults |-> defaults, katex_options |-> defaults]
    ELSE [defaults |-> DictUpdate(defaults, o[1]),
          katex_options |-> DictUpdate(defaults, o[1])]
MergeOptions(defaults, o) ==
    IF o = <<>> THEN [defaults |-> defaults, katex_options |-> defaults]
    ELSE [defaults |-> defaults, katex_options |-> DictUpdate(defaults, o[1])]

\* stop: process.wait(timeout=STOP_TIMEOUT) raises TimeoutExpired when the
\* process has not exited by the end of the grace period.
TimeoutExpiredAlways(state) == TRUE
TimeoutExpired(state) == state = "running"

\* render, `Configure timeouts`: the socket's timeout after
\* self.sock.settimeout(timeout) or self.sock.settimeout(None), from render's
\* timeout and the timeout the socket had.
SettimeoutOnlyFinite(t, current) == IF t = <<>> THEN current ELSE t
Settimeout(t, current) == t

\* render, in the payload loop: `if elapsed >= timeout: raise socket.timeout()`
\* and otherwise `self.sock.settimeout(timeout - elapsed)`.
BudgetExhausted(elapsed, limit) == elapsed >= limit
RemainingBudgetFresh(limit, elapsed) == limit
RemainingBudget(limit, elapsed) == limit - elapsed

\* render_latex, the except clause: a socket.timeout of render becomes a
\* KaTeXError that names the input.
OnSocketTimeoutNoInput(l) == KaTeXError(TIMEOUT_EXPIRED_TEMPLATE)
OnSocketTimeout(l) == KaTeXError(Format(TIMEOUT_EXPIRED_TEMPLATE, l))

\* render_latex, the mapping of the decoded response.
MapResponseErrorFirst(resp) ==
    IF "error" \in DOMAIN resp THEN KaTeXError(resp.error)
    ELSE IF "html" \in DOMAIN resp THEN Return(resp.html)
    ELSE KaTeXError(<<"Unknown response from KaTeX renderer">>)
MapResponse(resp) ==
    IF "html" \in DOMAIN resp THEN Return(resp.html)
    ELSE IF "error" \in DOMAIN resp THEN KaTeXError(resp.error)
    ELSE KaTeXError(<<"Unknown response from KaTeX renderer">>)

(***************************************************************************)
(* The responses of the worker and their serialisation.                    *)
(***************************************************************************)
\* The JSON objects the worker answers with: html, error, both, neither.
Responses ==
    { [html |-> <<"x">>],
      [error |-> <<"y">>],
      [html |-> <<"y">>, error |-> <<"x">>],
      [other |-> <<"x">>] }

\* LENGTH_STRUCT = struct.Struct("<i"): LENGTH_STRUCT.size
LENGTH_SIZE == 4

\* LENGTH_STRUCT.pack(n): 32 bits, little-endian, two's complement.
Pack(n) ==
    LET u == IF n >= 0 THEN n ELSE n + 2147483647 + 1
        top == (u \div 16777216) % 256
    IN  << u % 256, (u \div 256) % 256, (u \div 65536) % 256,
           IF n >= 0 THEN top ELSE top + 128 >>

\* LENGTH_STRUCT.unpack(b)[0] of four bytes.
Unpack(b) ==
    b[1] + 256 * b[2] + 65536 * b[3]
      + 16777216 * (IF b[4] >= 128 THEN b[4] - 256 ELSE b[4])

\* str.encode("utf-8") and bytes.decode("utf-8") on the characters the
\* messages are made of; any other byte below 128 decodes to some other
\* character, written "?".
Alphabet == { "{", "}", "h", "e", "o", ";", "x", "y" }
Ord(c) ==
    CASE c = "{" -> 123 [] c = "}" -> 125 [] c = "h" -> 104 [] c = "e" -> 101
      [] c = "o" -> 111 [] c = ";" -> 59 [] c = "x" -> 120 [] c = "y" -> 121
Chr(b) ==
    IF \E c \in Alphabet : Ord(c) = b
    THEN CHOOSE c \in Alphabet : Ord(c) = b
    ELSE "?"
Utf8Encode(text) == [i \in 1..Len(text) |-> Ord(text[i])]
Utf8Decode(bytes) == [i \in 1..Len(bytes) |-> Chr(bytes[i])]

\* The JSON text of an object with text values: the object in braces, each
\* member its key ("h" for html, "e" for error, "o" for any other key), the
\* characters of its value and a closing ";".
EmptyObject == [k \in {} |-> <<>>]
KeyOrder == << "html", "error", "other" >>
KeyChar(k) == CASE k = "html" -> "h" [] k = "error" -> "e" [] k = "other" -> "o"
KeyOf(c) == CASE c = "h" -> "html" [] c = "e" -> "error" [] c = "o" -> "other"

RECURSIVE DumpMembers(_, _)
DumpMembers(obj, i) ==
    IF i > Len(KeyOrder) THEN <<>>
    ELSE (IF KeyOrder[i] \in DOMAIN obj
          THEN <<KeyChar(KeyOrder[i])>> \o obj[KeyOrder[i]] \o <<";">>
          ELSE <<>>) \o DumpMembers(obj, i + 1)

\* json.dumps
JsonDumps(obj) == <<"{">> \o DumpMembers(obj, 1) \o <<"}">>

JsonFail == [ok |-> FALSE, obj |-> EmptyObject]

RECURSIVE LoadMembers(_, _)
LoadMembers(text, obj) ==
    IF text = <<>> THEN [ok |-> TRUE, obj |-> obj]
    ELSE IF Head(text) \notin {"h", "e", "o"} THEN JsonFail
    ELSE LET rest == Tail(text)
             ends == { i \in 1..Len(rest) : rest[i] = ";" }
         IN  IF ends = {} THEN JsonFail
             ELSE LET e == CHOOSE i \in ends : \A j \in ends : i <= j
                  IN  IF \E i \in 1..(e - 1) : rest[i] \notin {"x", "y"}
                      THEN JsonFail
                      ELSE LoadMembers(SubSeq(rest, e + 1, Len(rest)),
                                       (KeyOf(Head(text)) :> SubSeq(rest, 1, e - 1)) @@ obj)

\* json.loads: the object, or that the text is no JSON (JSONDecodeError).
JsonLoads(text) ==
    IF Len(text) >= 2 /\ text[1] = "{" /\ text[Len(text)] = "}"
    THEN LoadMembers(SubSeq(text, 2, Len(text) - 1), EmptyObject)
    ELSE JsonFail

\* A message on the wire: the length prefix, then the payload.
Payload(obj) == Utf8Encode(JsonDumps(obj))
Frame(obj) == Pack(Len(Payload(obj))) \o Payload(obj)

(***************************************************************************)
(* The receive buffer: a bytearray of cap bytes; data are its first bytes, *)
(* the bytes behind them are zero.                                         *)
(***************************************************************************)
bytearray(n) == [cap |-> n, data |-> <<>>]

ByteAt(buf, i) == IF i < Len(buf.data) THEN buf.data[i + 1] ELSE 0

\* render: `if len(self.buffer) < length: self.buffer = bytearray(length)`
EnsureCapacityNever(buf, n) == buf
EnsureCapacity(buf, n) == IF buf.cap < n THEN bytearray(n) ELSE buf

\* recv_into(view[received:length], remaining) that returns chunk: the bytes
\* go to the positions received, received + 1, ...
RecvIntoBufferAtStart(buf, offset, chunk) ==
    [buf EXCEPT !.data =
        [i \in 1..Max(Len(buf.data), Len(chunk)) |->
            IF i <= Len(chunk) THEN chunk[i] ELSE ByteAt(buf, i - 1)]]
RecvIntoBuffer(buf, offset, chunk) ==
    [buf EXCEPT !.data =
        [i \in 1..Max(Len(buf.data), offset + Len(chunk)) |->
            IF i > offset /\ i <= offset + Len(chunk)
            THEN chunk[i - offset]
            ELSE ByteAt(buf, i - 1)]]

\* view[:length]
ViewSliceWhole(buf, n) == [i \in 1..buf.cap |-> ByteAt(buf, i - 1)]
ViewSlice(buf, n) ==
    LET m == IF n >= 0 THEN Min(n, buf.cap) ELSE Max(buf.cap + n, 0)
    IN  [i \in 1..m |-> ByteAt(buf, i - 1)]

\* render: view[:length].tobytes().decode("utf-8"), then json.loads.
DecodeResponse(buf, n) ==
    LET bytes == ViewSlice(buf, n)
    IN  IF \E i \in 1..Len(bytes) : bytes[i] >= 128
        THEN [ok |-> FALSE, obj |-> EmptyObject, error |-> "UnicodeDecodeError"]
        ELSE LET r == JsonLoads(Utf8Decode(bytes))
             IN  [ok |-> r.ok, obj |-> r.obj, error |-> "json.JSONDecodeError"]

\* render_latex: `except socket.timeout`.
ExceptClause(exc, l) ==
    IF exc.type = "socket.timeout" THEN OnSocketTimeout(l) ELSE exc

SocketTimeout == Raise("socket.timeout", <<"timed out">>)

\* The frames of the stream after the client read k more bytes.
RECURSIVE ConsumeFrames(_, _)
ConsumeFrames(fs, k) ==
    IF k = 0 \/ fs = <<>> THEN fs
    ELSE IF Head(fs).left > k
    THEN << [Head(fs) EXCEPT !.left = @ - k] >> \o Tail(fs)
    ELSE ConsumeFrames(Tail(fs), k - Head(fs).left)

VARIABLES
    \* ---- the process and the server's life cycle
    posix,          \* os.name == "posix"
    KATEX_PATH,     \* the module's KATEX_PATH: <<>> for None, or <<path>>
    cmd,            \* per start: the command line its worker was spawned
                    \* with, <<>> before the start
    RENDER_SERVER,  \* RenderServer.RENDER_SERVER: None or the handle
    nStarted,       \* the calls of RenderServer.start so far; a start's number
                    \* names its process, its rundir and its socket
    procState,      \* per start: "none", "running" or "exited"
    rundirs,        \* the temp directories that exist
    sockState,      \* per start: "none", "open" (connected) or "closed"
    transportUp,    \* the workers that created their socket file / listen
    termRequested,  \* the processes that were sent terminate()
    atexitHooks,    \* atexit's registry: the handles RenderServer.stop is
                    \* registered for, in order
    stopCalls,      \* per handle: the invocations of stop so far
    exitPhase,      \* "running", "hooks" (the interpreter runs atexit), "exited"
    hooksLeft,      \* the atexit hooks still to run
    startup_start,  \* start_unix_socket / start_network_socket: startup_start
    \* ---- the call in progress
    pc,             \* its position
    cur,            \* the start attempt, or the handle the call works on
    latex,          \* render_latex's argument
    options,        \* render_latex's argument options: <<>> for None, or
                    \* <<mapping>>
    KATEX_DEFAULT_OPTIONS,  \* the module's mapping of default options
    katex_options,  \* the katex_options of the call's request
    lastOptions,    \* the options argument of the call before this one
    now,            \* time.monotonic()
    outcome,        \* how the last finished call ended
    \* ---- RenderServer.render and the connection
    via,            \* the call in progress: "render_latex", or "render" when
                    \* server.render is called directly
    timeout,        \* render's timeout: <<>> for None, <<t>> for t ticks
    lastTimeout,    \* the timeout of the render call before this one
    start_time,     \* render: start_time
    sockTimeout,    \* the socket's timeout (settimeout): <<>> or <<t>>
    toWorker,       \* the request frames written to the socket and not yet
                    \* answered: complete when the payload followed the prefix
    inflight,       \* the response bytes the worker wrote and the client has
                    \* not read yet
    buffer,         \* self.buffer: its capacity and its first bytes (the bytes
                    \* behind data are zero)
    prefix,         \* what recv(LENGTH_STRUCT.size) returned in this call
    length,         \* render: length (of the response)
    received,       \* render: received
    remaining,      \* render: remaining
    response,       \* render_latex: response, the decoded object
    calls,          \* the render calls made so far
    written,        \* the request frames this call has written in full
    frames,         \* the response frames not yet read to their end: the
                    \* object of each, the call whose request it answers
                    \* and how many of its bytes are unread
    callFrame,      \* the frame at whose first byte this call began to read
                    \* its prefix (aligned), or that it began elsewhere
    reads,          \* the recv_into calls of this call that returned bytes,
                    \* counted up to two
    \* ---- the Markdown inline scan of one text (KatexPattern)
    data,           \* the text; a stashed node is the one character PH
    startIndex,     \* where the next search of the pattern begins
    mdpc,           \* "scan", "call" (handleMatch is in render_latex), "done"
                    \* (no match is left), "raised" (handleMatch raised)
    match,          \* the match handleMatch was last called with and what
                    \* it did with it
    passed,         \* the match handleMatch skipped before that one
    pushed,         \* the arguments of the push_preamble calls, in order
    requests        \* the render_latex calls handleMatch made

config == << posix, KATEX_PATH >>
docVars == << data, startIndex, mdpc, match, passed, pushed, requests >>
outside == << config, docVars >>
started == << nStarted, cmd >>
serverVars == << RENDER_SERVER, started, procState, rundirs, sockState,
                 transportUp, termRequested, atexitHooks, stopCalls, exitPhase,
                 hooksLeft, startup_start >>
lifeVars == << outside, serverVars >>
optVars == << options, KATEX_DEFAULT_OPTIONS, katex_options, lastOptions >>
callArgs == << latex, optVars >>
callVars == << pc, cur, callArgs, now, outcome >>
callCount == << calls, written >>
timeouts == << timeout, lastTimeout >>
chanVars == << via, timeouts, start_time, toWorker, inflight,
               prefix, length, received, remaining, response, callCount, frames,
               callFrame, reads >>
renderVars == << chanVars, sockTimeout, buffer >>
vars == << lifeVars, callVars, renderVars >>

Ids == 1..MaxStarts

\* How the last operation ended: the operation, why it ended, the handle it
\* was about, what it returned or raised, the statement it ended at, and for
\* a render with a timeout the ticks from its start_time to its end.
NoOutcome ==
    [op |-> "none", cause |-> "none", handle |-> None, result |-> Return(<<>>),
     at |-> "none", took |-> 0]
Outcome(op, cause, h, res) ==
    [op |-> op, cause |-> cause, handle |-> h, result |-> res, at |-> pc,
     took |-> 0]

\* The module was imported and render_latex was not called yet.
OptionsInit ==
    /\ options = <<>>
    /\ KATEX_DEFAULT_OPTIONS = DefaultOptions
    /\ katex_options = DefaultOptions
    /\ lastOptions = <<>>

\* str(n) of a number below ten.
Str(n) == <<"0", "1", "2", "3", "4", "5", "6", "7", "8", "9">>[n + 1]

\* start: rundir = Path(tempfile.mkdtemp(prefix="pelican_katex")), the
\* directory made for start number i, as its path components.
rundir(i) == << "tmp", "pelican_katex", Str(i) >>

\* start_unix_socket: socket_path = rundir / "katex.sock"
socket_path(i) == Append(rundir(i), "katex.sock")

\* free_port(): the port the system assigns to a socket bound to
\* ("127.0.0.1", 0), one of the ephemeral ports.
free_port == 1..MaxPorts

\* An argument of the command line is a string, written as the sequence of
\* its parts.
KATEX_NODEJS_BINARY == <<"node">>
SCRIPT_PATH == <<"pelican_katex", "render-katex.js">>

\* `if KATEX_PATH:` is taken for a path that is neither None nor empty.
Truthy(v) == v # <<>> /\ v[1] # <<>>

\* The values the configuration gives KATEX_PATH: None (the default), the
\* empty string, a path.
KatexPaths == { <<>>, << <<>> >>, << <<"opt", "katex">> >> }

\* RenderServer.build_command(socket=None, port=None); socket and port are
\* <<>> for None or <<value>>.
build_commandAlwaysKatex(socket, port) ==
    << KATEX_NODEJS_BINARY, SCRIPT_PATH >>
    \o (IF socket # <<>> THEN << <<"--socket">>, socket[1] >> ELSE <<>>)
    \o (IF port # <<>> THEN << <<"--port">>, port[1] >> ELSE <<>>)
    \o << <<"--katex">>, IF KATEX_PATH # <<>> THEN KATEX_PATH[1] ELSE <<"None">> >>
build_command(socket, port) ==
    << KATEX_NODEJS_BINARY, SCRIPT_PATH >>
    \o (IF socket # <<>> THEN << <<"--socket">>, socket[1] >> ELSE <<>>)
    \o (IF port # <<>> THEN << <<"--port">>, port[1] >> ELSE <<>>)
    \o (IF Truthy(KATEX_PATH) THEN << <<"--katex">>, KATEX_PATH[1] >> ELSE <<>>)

\* A handle is live when its process runs and its socket is connected.
Live(h) == h # None /\ procState[h] = "running" /\ sockState[h] = "open"

\* No call was made on the connection yet.
ChannelInit ==
    /\ via = "none"
    /\ timeout = <<>>
    /\ lastTimeout = <<>>
    /\ start_time = 0
    /\ toWorker = <<>>
    /\ inflight = <<>>
    /\ prefix = <<>>
    /\ length = 0
    /\ received = 0
    /\ remaining = 0
    /\ response = EmptyObject
    /\ calls = 0
    /\ written = 0
    /\ frames = <<>>
    /\ callFrame = [aligned |-> FALSE, obj |-> EmptyObject, call |-> 0]
    /\ reads = 0


(***************************************************************************)
(* Spec: the life cycle.                                                   *)
(***************************************************************************)
\* No match of the scan.
NoMatch == [kind |-> "none", node |-> "None", from |-> 0, start |-> 0, end |-> 0,
            latex |-> <<>>, display |-> FALSE, mend |-> 0]

\* No Markdown text is being scanned.
DocInit ==
    /\ data = <<>>
    /\ startIndex = 0
    /\ mdpc = "none"
    /\ match = NoMatch
    /\ passed = NoMatch
    /\ pushed = <<>>
    /\ requests = 0

\* The state of a new process but for KATEX_PATH.
InitLife ==
    /\ DocInit
    /\ posix \in BOOLEAN
    /\ RENDER_SERVER = None
    /\ nStarted = 0
    /\ cmd = [i \in Ids |-> <<>>]
    /\ procState = [i \in Ids |-> "none"]
    /\ rundirs = {}
    /\ sockState = [i \in Ids |-> "none"]
    /\ transportUp = {}
    /\ termRequested = {}
    /\ atexitHooks = <<>>
    /\ stopCalls = [i \in Ids |-> 0]
    /\ exitPhase = "running"
    /\ hooksLeft = <<>>
    /\ startup_start = 0
    /\ pc = "idle"
    /\ cur = None
    /\ latex = <<>>
    /\ OptionsInit
    /\ now = 0
    /\ outcome = NoOutcome
    /\ ChannelInit
    /\ sockTimeout = <<>>
    /\ buffer = bytearray(0)

\* KATEX_PATH = None, the module's default.
Init == KATEX_PATH = <<>> /\ InitLife

\* render_latex(l, o) up to RenderServer.get(): the options are merged for
\* the request; an existing RENDER_SERVER is
\* returned as it is; otherwise start() makes the temp directory, spawns the
\* worker and begins to wait for its transport.
render_latex_call(l, o) ==
    /\ pc = "idle"
    /\ exitPhase = "running"
    /\ latex' = l
    /\ options' = o
    /\ lastOptions' = options
    /\ KATEX_DEFAULT_OPTIONS' = MergeOptions(KATEX_DEFAULT_OPTIONS, o).defaults
    /\ katex_options' = MergeOptions(KATEX_DEFAULT_OPTIONS, o).katex_options
    /\ IF RENDER_SERVER # None
       THEN /\ cur' = RENDER_SERVER
            /\ pc' = "render"
            /\ UNCHANGED << started, rundirs, procState, startup_start >>
       ELSE /\ nStarted < MaxStarts
            /\ nStarted' = nStarted + 1
            /\ IF posix
               THEN cmd' = [cmd EXCEPT ![nStarted + 1] =
                              build_command(<<socket_path(nStarted + 1)>>, <<>>)]
               ELSE \E port \in free_port :
                      cmd' = [cmd EXCEPT ![nStarted + 1] =
                                build_command(<<>>, << <<Str(port)>> >>)]
            /\ cur' = nStarted + 1
            /\ rundirs' = rundirs \cup {nStarted + 1}
            /\ procState' = [procState EXCEPT ![nStarted + 1] = "running"]
            /\ startup_start' = now
            /\ pc' = IF posix THEN "unix_poll" ELSE "net_poll"
    /\ via' = "render_latex"
    /\ UNCHANGED << config, RENDER_SERVER, sockState, transportUp, termRequested,
                    atexitHooks, stopCalls, exitPhase, hooksLeft, now, outcome,
                    timeouts, start_time, sockTimeout, toWorker, inflight,
                    buffer, prefix, length, received, remaining,
                    response, callCount, frames, callFrame, reads >>

\* The program calls render_latex(l, o).
render_latex(l, o) == render_latex_call(l, o) /\ UNCHANGED docVars

\* The call fails: the exception leaves start, get and render_latex.
FailStart(cause, exc, t) ==
    /\ pc' = "idle"
    /\ now' = t
    /\ outcome' = Outcome("render_latex", cause, None, exc)
    /\ UNCHANGED << renderVars, lifeVars, cur, callArgs >>

\* start: the socket is connected; RenderServer(rundir, process, sock) is
\* made, stop is registered with atexit and get stores the handle.
Connected(t) ==
    /\ sockState' = [sockState EXCEPT ![cur] = "open"]
    /\ atexitHooks' = Append(atexitHooks, cur)
    /\ RENDER_SERVER' = cur
    /\ pc' = "render"
    /\ now' = t
    /\ buffer' = bytearray(BUFFER_INITIAL)
    /\ sockTimeout' = <<>>
    /\ UNCHANGED << outside, started, procState, rundirs, transportUp, termRequested,
                    stopCalls, exitPhase, hooksLeft, startup_start, cur, callArgs,
                    outcome, chanVars >>

\* start_unix_socket, one turn of `while not socket_path.is_socket()`.
UnixPoll ==
    /\ pc = "unix_poll"
    /\ IF cur \in transportUp
       THEN /\ pc' = "unix_connect"
            /\ UNCHANGED << renderVars, lifeVars, cur, callArgs, now, outcome >>
       ELSE \E d \in 1..MaxSleep :
              /\ now + d <= ClockCap
              /\ IF StartupExpired(now + d, startup_start, KATEX_STARTUP_TIMEOUT)
                 THEN FailStart("startup_timeout",
                                timeout_error(<<KATEX_STARTUP_TIMEOUT>>), now + d)
                 ELSE /\ now' = now + d
                      /\ UNCHANGED << renderVars, lifeVars, pc, cur, callArgs, outcome >>

\* start_unix_socket, the connect under socket_timeout(sock, remaining).
\* settimeout refuses a negative value; a zero makes the socket non-blocking.
UnixConnect ==
    /\ pc = "unix_connect"
    /\ \E d \in 0..1 :
         LET t == now + d
             startRemaining == startup_start + KATEX_STARTUP_TIMEOUT - t
         IN  IF startRemaining < 0
             THEN FailStart("settimeout", Raise("ValueError", <<"Timeout value out of range">>), t)
             ELSE IF procState[cur] # "running"
             THEN FailStart("connect", Raise("ConnectionRefusedError", <<"Connection refused">>), t)
             ELSE \/ Connected(t)
                  \/ /\ startRemaining = 0
                     /\ FailStart("connect", Raise("BlockingIOError", <<"Resource temporarily unavailable">>), t)
                  \/ /\ startRemaining > 0
                     /\ FailStart("startup_timeout",
                                  timeout_error(<<KATEX_STARTUP_TIMEOUT>>), t + startRemaining)

\* start_network_socket, one turn of `while True`.
NetPoll ==
    /\ pc = "net_poll"
    /\ LET startRemaining == startup_start + KATEX_STARTUP_TIMEOUT - now
       IN  IF startRemaining <= 0
           THEN FailStart("startup_timeout", timeout_error(<<KATEX_STARTUP_TIMEOUT>>), now)
           ELSE IF cur \in transportUp /\ procState[cur] = "running"
           THEN \/ Connected(now)
                \/ FailStart("startup_timeout",
                             timeout_error(<<KATEX_STARTUP_TIMEOUT>>), now + startRemaining)
           ELSE \E d \in 1..MaxSleep :
                  /\ now + d <= ClockCap
                  /\ now' = now + d
                  /\ UNCHANGED << renderVars, lifeVars, pc, cur, callArgs, outcome >>

\* The worker creates its socket file, or starts to listen on its port.
WorkerCreatesTransport(i) ==
    /\ procState[i] = "running"
    /\ i \notin transportUp
    /\ transportUp' = transportUp \cup {i}
    /\ UNCHANGED << renderVars, outside, RENDER_SERVER, started, procState, rundirs, sockState,
                    termRequested, atexitHooks, stopCalls, exitPhase, hooksLeft,
                    startup_start, callVars >>

\* The worker process exits by itself (it crashes, or it obeys terminate()).
WorkerExits(i) ==
    /\ procState[i] = "running"
    /\ procState' = [procState EXCEPT ![i] = "exited"]
    /\ UNCHANGED << renderVars, outside, RENDER_SERVER, started, rundirs, sockState, transportUp,
                    termRequested, atexitHooks, stopCalls, exitPhase, hooksLeft,
                    startup_start, callVars >>

\* What server.render and the mapping of its response end with, on a live
\* handle (SpecRender has the steps).
RenderResults(l) ==
    { [cause |-> "response", result |-> MapResponse(r)] : r \in Responses }
    \cup { [cause |-> "socket_timeout", result |-> OnSocketTimeout(l)],
           [cause |-> "unpack", result |-> Raise("struct.error", <<"unpack requires a buffer of 4 bytes">>)] }

\* render_latex from server.render on, in one step.
RenderStep ==
    /\ pc = "render"
    /\ \E r \in
         IF sockState[cur] = "closed"
         THEN { [cause |-> "socket", result |-> Raise("OSError", <<"Bad file descriptor">>)] }
         ELSE IF procState[cur] # "running"
         THEN { [cause |-> "socket", result |-> Raise("BrokenPipeError", <<"Broken pipe">>)],
                [cause |-> "unpack", result |-> Raise("struct.error", <<"unpack requires a buffer of 4 bytes">>)] }
         ELSE RenderResults(latex) :
         outcome' = Outcome("render_latex", r.cause, cur, r.result)
    /\ pc' = "idle"
    /\ UNCHANGED << renderVars, lifeVars, cur, callArgs, now >>

\* stop(self) is invoked: by the program on the handle it holds, or by the
\* interpreter for the next atexit hook.  Its first statement closes the socket.
StopBegin(h) ==
    /\ stopCalls' = [stopCalls EXCEPT ![h] = @ + 1]
    /\ cur' = h
    /\ sockState' = [sockState EXCEPT ![h] = "closed"]
    /\ pc' = "stop_terminate"

stop ==
    /\ pc = "idle"
    /\ exitPhase = "running"
    /\ RENDER_SERVER # None
    /\ stopCalls[RENDER_SERVER] < MaxStops
    /\ StopBegin(RENDER_SERVER)
    /\ UNCHANGED << renderVars, outside, RENDER_SERVER, started, procState, rundirs, transportUp,
                    termRequested, atexitHooks, exitPhase, hooksLeft, startup_start,
                    callArgs, now, outcome >>

\* stop: self.process.terminate(), which signals a process that still runs.
StopTerminate ==
    /\ pc = "stop_terminate"
    /\ termRequested' = IF procState[cur] = "running"
                        THEN termRequested \cup {cur} ELSE termRequested
    /\ pc' = "stop_wait"
    /\ UNCHANGED << renderVars, outside, RENDER_SERVER, started, procState, rundirs, sockState,
                    transportUp, atexitHooks, stopCalls, exitPhase, hooksLeft,
                    startup_start, cur, callArgs, now, outcome >>

\* stop: self.process.wait(timeout=STOP_TIMEOUT): the process has exited, or
\* TimeoutExpired is raised and caught.
StopWait ==
    /\ pc = "stop_wait"
    /\ pc' = IF TimeoutExpired(procState[cur]) THEN "stop_kill" ELSE "stop_rmtree"
    /\ UNCHANGED << renderVars, lifeVars, cur, callArgs, now, outcome >>

\* stop: except TimeoutExpired: self.process.kill().
StopKill ==
    /\ pc = "stop_kill"
    /\ procState' = [procState EXCEPT ![cur] = "exited"]
    /\ pc' = "stop_rmtree"
    /\ UNCHANGED << renderVars, outside, RENDER_SERVER, started, rundirs, sockState, transportUp,
                    termRequested, atexitHooks, stopCalls, exitPhase, hooksLeft,
                    startup_start, cur, callArgs, now, outcome >>

\* stop: shutil.rmtree(self.rundir), which raises for a missing directory.
StopRmtree ==
    /\ pc = "stop_rmtree"
    /\ IF cur \in rundirs
       THEN /\ rundirs' = rundirs \ {cur}
            /\ outcome' = Outcome("stop", "done", cur, Return(<<>>))
       ELSE /\ rundirs' = rundirs
            /\ outcome' = Outcome("stop", "rmtree", cur,
                                  Raise("FileNotFoundError", <<"No such file or directory">>))
    /\ pc' = "idle"
    /\ UNCHANGED << renderVars, outside, RENDER_SERVER, started, procState, sockState, transportUp,
                    termRequested, atexitHooks, stopCalls, exitPhase, hooksLeft,
                    startup_start, cur, callArgs, now >>

\* The interpreter exits in an orderly way and begins to run the atexit hooks.
ProcessExit ==
    /\ pc = "idle"
    /\ exitPhase = "running"
    /\ exitPhase' = "hooks"
    /\ hooksLeft' = atexitHooks
    /\ UNCHANGED << renderVars, outside, RENDER_SERVER, started, procState, rundirs, sockState,
                    transportUp, termRequested, atexitHooks, stopCalls,
                    startup_start, callVars >>

\* atexit runs the hooks last-registered first; an exception of a hook is
\* printed and the next hook runs.
RunHook ==
    /\ pc = "idle"
    /\ exitPhase = "hooks"
    /\ IF hooksLeft = <<>>
       THEN /\ exitPhase' = "exited"
            /\ UNCHANGED << renderVars, outside, RENDER_SERVER, started, procState, rundirs,
                            sockState, transportUp, termRequested, atexitHooks,
                            stopCalls, hooksLeft, startup_start, callVars >>
       ELSE /\ StopBegin(hooksLeft[Len(hooksLeft)])
            /\ hooksLeft' = SubSeq(hooksLeft, 1, Len(hooksLeft) - 1)
            /\ UNCHANGED << renderVars, outside, RENDER_SERVER, started, procState, rundirs,
                            transportUp, termRequested, atexitHooks, exitPhase,
                            startup_start, callArgs, now, outcome >>

\* The steps of the program itself (the rest is the worker's).
ProgramStep ==
    \/ UnixPoll \/ UnixConnect \/ NetPoll \/ RenderStep
    \/ StopTerminate \/ StopWait \/ StopKill \/ StopRmtree

Next ==
    \/ \E l \in Latex : render_latex(l, <<>>)
    \/ UnixPoll
    \/ UnixConnect
    \/ NetPoll
    \/ RenderStep
    \/ \E i \in Ids : WorkerCreatesTransport(i)
    \/ \E i \in Ids : WorkerExits(i)
    \/ stop
    \/ StopTerminate
    \/ StopWait
    \/ StopKill
    \/ StopRmtree
    \/ ProcessExit
    \/ RunHook

Spec == Init /\ [][Next]_vars

\* The program's own steps are taken: a blocked call is never left waiting
\* while one of its steps is possible.
FairSpec == Spec /\ WF_vars(ProgramStep)

(***************************************************************************)
(* SpecCommand: the life cycle, with the KATEX_PATH the configuration set. *)
(***************************************************************************)
InitCommand == KATEX_PATH \in KatexPaths /\ InitLife

SpecCommand == InitCommand /\ [][Next]_vars

(***************************************************************************)
(* SpecRender: RenderServer.render and render_latex on a started server.   *)
(***************************************************************************)
\* RenderServer.start has returned: the worker runs, the socket is connected
\* and has no timeout, the buffer is new.
InitServer ==
    /\ posix = TRUE
    /\ KATEX_PATH = <<>>
    /\ RENDER_SERVER = 1
    /\ nStarted = 1
    /\ cmd = [i \in Ids |-> IF i = 1 THEN build_command(<<socket_path(1)>>, <<>>)
                                     ELSE <<>>]
    /\ procState = [i \in Ids |-> IF i = 1 THEN "running" ELSE "none"]
    /\ rundirs = {1}
    /\ sockState = [i \in Ids |-> IF i = 1 THEN "open" ELSE "none"]
    /\ transportUp = {1}
    /\ termRequested = {}
    /\ atexitHooks = <<1>>
    /\ stopCalls = [i \in Ids |-> 0]
    /\ exitPhase = "running"
    /\ hooksLeft = <<>>
    /\ startup_start = 0
    /\ pc = "idle"
    /\ cur = None
    /\ latex = <<>>
    /\ OptionsInit
    /\ now = 0
    /\ outcome = NoOutcome
    /\ ChannelInit
    /\ sockTimeout = <<>>
    /\ buffer = bytearray(BUFFER_INITIAL)

InitRender == InitServer /\ DocInit

\* A blocking socket call that succeeds returns d ticks after it began,
\* before the socket's timeout is over; with no timeout the time it takes
\* does not matter.
Durations(limit) ==
    IF sockTimeout = <<>> THEN {0}
    ELSE 0..Min(limit, sockTimeout[1] - 1)

\* A blocking socket call can run into the socket's timeout.
CanTimeOut == sockTimeout # <<>> /\ sockTimeout[1] > 0

\* The peer has closed the connection and every byte it wrote was read.
EndOfStream == inflight = <<>> /\ procState[cur] # "running"

\* The program calls server.render(request) on the handle it got from
\* RenderServer.get(), with the default timeout=None.
render_direct(l) ==
    /\ pc = "idle"
    /\ exitPhase = "running"
    /\ RENDER_SERVER # None
    /\ latex' = l
    /\ cur' = RENDER_SERVER
    /\ via' = "render"
    /\ pc' = "render"
    /\ UNCHANGED << lifeVars, optVars, now, outcome, timeouts, start_time, sockTimeout,
                    toWorker, inflight, buffer, prefix, length,
                    received, remaining, response, callCount, frames, callFrame, reads >>

\* The call ends: with what render returned or raised, through render_latex's
\* except clause when render_latex made the call.  The locals of render are
\* gone.  No time stamp outlives a call and the clock's reference point is
\* arbitrary, so the clock restarts at 0.
FinishAt(cause, res, t) ==
    /\ pc' = "idle"
    /\ outcome' = [Outcome(via, cause, cur,
                           IF via = "render_latex" /\ res.kind = "raise"
                           THEN ExceptClause(res, latex) ELSE res)
                   EXCEPT !.took = IF timeout # <<>> /\ pc # "render"
                                   THEN t - start_time ELSE 0]
    /\ length' = 0
    /\ received' = 0
    /\ remaining' = 0
    /\ start_time' = 0
    /\ now' = 0

\* The call ends without having waited.
Finish(cause, res) == FinishAt(cause, res, now)

\* A blocking socket call raises socket.timeout when it has waited for the
\* whole of the socket's timeout.
TimedOutResend ==
    /\ pc' = "send_len"
    /\ UNCHANGED << outcome, length, received, remaining, start_time, now >>
TimedOut == FinishAt("socket_timeout", SocketTimeout, now + sockTimeout[1])

\* render: the timeouts are configured and sendall(prefix) begins.
RenderEnter ==
    /\ pc = "render"
    /\ calls' = calls + 1
    /\ written' = 0
    /\ prefix' = <<>>
    /\ reads' = 0
    /\ callFrame' = [aligned |-> FALSE, obj |-> EmptyObject, call |-> 0]
    /\ LET t == IF via = "render_latex" THEN <<KATEX_RENDER_TIMEOUT>> ELSE <<>>
       IN  /\ timeout' = t
           /\ lastTimeout' = timeout
           /\ IF sockState[cur] # "open"
              THEN /\ Finish("socket", Raise("OSError", <<"Bad file descriptor">>))
                   /\ UNCHANGED sockTimeout
              ELSE /\ start_time' = IF t # <<>> THEN now ELSE start_time
                   /\ sockTimeout' = Settimeout(t, sockTimeout)
                   /\ pc' = "send_len"
                   /\ outcome' = NoOutcome
                   /\ UNCHANGED << length, received, remaining, now >>
    /\ response' = EmptyObject
    /\ UNCHANGED << lifeVars, cur, callArgs, via, toWorker, inflight, buffer, frames >>

\* render: self.sock.sendall(self.LENGTH_STRUCT.pack(length))
SendLen ==
    /\ pc = "send_len"
    /\ \/ /\ procState[cur] = "running"
          /\ \E d \in Durations(MaxSendTicks) : now' = now + d
          /\ toWorker' = Append(toWorker, [latex |-> latex, complete |-> FALSE,
                                        call |-> calls])
          /\ pc' = "send_body"
          /\ UNCHANGED << outcome, length, received, remaining, start_time >>
       \/ /\ procState[cur] # "running"
          /\ Finish("socket", Raise("BrokenPipeError", <<"Broken pipe">>))
          /\ UNCHANGED toWorker
       \/ /\ procState[cur] = "running"
          /\ CanTimeOut
          /\ TimedOut
          /\ UNCHANGED toWorker
    /\ UNCHANGED << lifeVars, cur, callArgs, via, timeouts, sockTimeout, inflight, buffer,
                    prefix, response, callCount, frames, callFrame, reads >>

\* render: self.sock.sendall(request_bytes)
SendBody ==
    /\ pc = "send_body"
    /\ \/ /\ procState[cur] = "running"
          /\ \E d \in Durations(MaxSendTicks) : now' = now + d
          /\ toWorker' = [toWorker EXCEPT ![Len(toWorker)].complete = TRUE]
          /\ pc' = "recv_len"
          /\ written' = written + 1
          /\ UNCHANGED << outcome, length, received, remaining, start_time >>
       \/ /\ procState[cur] # "running"
          /\ Finish("socket", Raise("BrokenPipeError", <<"Broken pipe">>))
          /\ UNCHANGED << toWorker, written >>
       \/ /\ procState[cur] = "running"
          /\ CanTimeOut
          /\ TimedOut
          /\ UNCHANGED << toWorker, written >>
    /\ UNCHANGED << lifeVars, cur, callArgs, via, timeouts, sockTimeout, inflight, buffer,
                    prefix, response, calls, frames, callFrame, reads >>

\* render: length = LENGTH_STRUCT.unpack(self.sock.recv(LENGTH_STRUCT.size))[0]
\* and the buffer is made large enough.  recv returns the k bytes the transport
\* has delivered, at most the four asked for; unpack takes four bytes and no
\* fewer.
RecvLen ==
    /\ pc = "recv_len"
    /\ \/ \E k \in 1..Min(LENGTH_SIZE, Len(inflight)) :
            LET got == SubSeq(inflight, 1, k)
            IN  /\ prefix' = got
                /\ inflight' = SubSeq(inflight, k + 1, Len(inflight))
                /\ frames' = ConsumeFrames(frames, k)
                /\ callFrame' =
                     IF Head(frames).left = Len(Frame(Head(frames).obj))
                     THEN [aligned |-> TRUE, obj |-> Head(frames).obj,
                           call |-> Head(frames).call]
                     ELSE [aligned |-> FALSE, obj |-> EmptyObject, call |-> 0]
                /\ IF k = LENGTH_SIZE
                   THEN /\ length' = Unpack(got)
                        /\ buffer' = EnsureCapacity(buffer, Unpack(got))
                        /\ received' = 0
                        /\ remaining' = Unpack(got)
                        /\ pc' = "loop"
                        /\ \E d \in Durations(KATEX_RENDER_TIMEOUT) : now' = now + d
                        /\ UNCHANGED << outcome, start_time >>
                   ELSE /\ Finish("unpack", Raise("struct.error",
                                     <<"unpack requires a buffer of 4 bytes">>))
                        /\ UNCHANGED buffer
       \/ /\ EndOfStream
          /\ prefix' = <<>>
          /\ Finish("unpack", Raise("struct.error", <<"unpack requires a buffer of 4 bytes">>))
          /\ UNCHANGED << inflight, frames, callFrame, buffer >>
       \/ /\ ~EndOfStream
          /\ CanTimeOut
          /\ TimedOut
          /\ UNCHANGED << inflight, frames, callFrame, buffer, prefix >>
    /\ UNCHANGED << lifeVars, cur, callArgs, via, timeouts, sockTimeout, toWorker,
                    response, callCount, reads >>

\* render, the head of `while remaining > 0` with bytes still to come: the
\* elapsed time is taken, and the call gives up or the socket gets what is
\* left of the timeout.  Up to MaxStepTicks have passed since the last
\* statement.
LoopCheck ==
    /\ pc = "loop"
    /\ remaining > 0
    /\ \E d \in (IF timeout = <<>> THEN {0} ELSE 0..MaxStepTicks) :
         LET t == now + d
         IN  IF timeout # <<>> /\ BudgetExhausted(t - start_time, timeout[1])
             THEN /\ FinishAt("socket_timeout", Raise("socket.timeout", <<>>), t)
                  /\ UNCHANGED sockTimeout
             ELSE /\ sockTimeout' = IF timeout # <<>>
                                    THEN << RemainingBudget(timeout[1], t - start_time) >>
                                    ELSE sockTimeout
                  /\ now' = t
                  /\ pc' = "recv_into"
                  /\ UNCHANGED << outcome, length, received, remaining, start_time >>
    /\ UNCHANGED << lifeVars, cur, callArgs, via, timeouts, toWorker, inflight, buffer,
                    prefix, response, callCount, frames, callFrame, reads >>

\* render: n_received = self.sock.recv_into(view[received:length], remaining)
\* returns the k bytes the transport has delivered, at most remaining; at the
\* end of the stream it returns 0.
RecvInto ==
    /\ pc = "recv_into"
    /\ \/ /\ \E k \in 1..Min(remaining, Len(inflight)) :
               /\ buffer' = RecvIntoBuffer(buffer, received, SubSeq(inflight, 1, k))
               /\ inflight' = SubSeq(inflight, k + 1, Len(inflight))
               /\ frames' = ConsumeFrames(frames, k)
               /\ received' = received + k
               /\ remaining' = remaining - k
          /\ \E d \in Durations(KATEX_RENDER_TIMEOUT) : now' = now + d
          /\ reads' = Min(reads + 1, 2)
          /\ pc' = "loop"
          /\ UNCHANGED << outcome, length, start_time >>
       \/ /\ EndOfStream
          /\ pc' = "loop"
          /\ UNCHANGED << outcome, length, received, remaining, start_time, now,
                          buffer, inflight, frames, reads >>
       \/ /\ ~EndOfStream
          /\ CanTimeOut
          /\ TimedOut
          /\ UNCHANGED << buffer, inflight, frames, reads >>
    /\ UNCHANGED << lifeVars, cur, callArgs, via, timeouts, sockTimeout, toWorker, prefix,
                    response, callCount, callFrame >>

\* render leaves the loop, decodes view[:length] and returns the object;
\* render_latex maps it.
RenderReturn ==
    /\ pc = "loop"
    /\ remaining <= 0
    /\ LET d == DecodeResponse(buffer, length)
       IN  IF d.ok
           THEN /\ response' = d.obj
                /\ Finish("response",
                          IF via = "render_latex" THEN MapResponse(d.obj)
                          ELSE [kind |-> "return", type |-> "dict", val |-> <<>>])
           ELSE /\ response' = EmptyObject
                /\ Finish("decode", Raise(d.error, <<"invalid response">>))
    /\ UNCHANGED << lifeVars, cur, callArgs, via, timeouts, sockTimeout, toWorker, inflight,
                    buffer, prefix, callCount, frames, callFrame, reads >>

\* The worker answers the oldest request it has read in full.
WorkerRespond ==
    /\ toWorker # <<>>
    /\ Head(toWorker).complete
    /\ procState[RENDER_SERVER] = "running"
    /\ \E r \in Responses :
         /\ inflight' = inflight \o Frame(r)
         /\ frames' = Append(frames, [obj |-> r, req |-> Head(toWorker).latex,
                                      call |-> Head(toWorker).call,
                                      left |-> Len(Frame(r))])
    /\ toWorker' = Tail(toWorker)
    /\ UNCHANGED << lifeVars, callVars, via, timeouts, start_time, sockTimeout,
                    buffer, prefix, length, received, remaining, response, callCount,
                    callFrame, reads >>

NextRender ==
    \/ \E l \in Latex : calls < MaxCalls /\ render_latex(l, <<>>)
    \/ \E l \in Latex : calls < MaxCalls /\ render_direct(l)
    \/ RenderEnter
    \/ SendLen
    \/ SendBody
    \/ RecvLen
    \/ LoopCheck
    \/ RecvInto
    \/ RenderReturn
    \/ WorkerRespond
    \/ WorkerExits(RENDER_SERVER)

SpecRender == InitRender /\ [][NextRender]_vars

\* The steps of render, which the calling thread takes one after the other.
ClientStep ==
    \/ RenderEnter \/ SendLen \/ SendBody \/ RecvLen
    \/ LoopCheck \/ RecvInto \/ RenderReturn

\* A turn of the payload loop takes time: of the turns of a loop that goes
\* on, some find the clock advanced.
TimePasses == LoopCheck /\ (now' > now \/ pc' = "idle")

\* The worker dies while it writes its answer: the first k bytes of the frame
\* are on the connection, and the connection is closed.
WorkerDiesMidFrame ==
    /\ toWorker # <<>>
    /\ Head(toWorker).complete
    /\ procState[RENDER_SERVER] = "running"
    /\ \E r \in Responses :
         \E k \in 1..(Len(Frame(r)) - 1) :
           /\ inflight' = inflight \o SubSeq(Frame(r), 1, k)
           /\ frames' = Append(frames, [obj |-> r, req |-> Head(toWorker).latex,
                                      call |-> Head(toWorker).call,
                                        left |-> k])
    /\ toWorker' = Tail(toWorker)
    /\ procState' = [procState EXCEPT ![RENDER_SERVER] = "exited"]
    /\ UNCHANGED << outside, RENDER_SERVER, started, rundirs, sockState, transportUp,
                    termRequested, atexitHooks, stopCalls, exitPhase, hooksLeft,
                    startup_start, callVars, via, timeouts, start_time, sockTimeout,
                    buffer, prefix, length, received, remaining, response, callCount,
                    callFrame, reads >>

\* The first call on a started server, with a thread that runs and a clock
\* that advances.
NextFirstCall ==
    \/ \E l \in Latex : calls = 0 /\ render_latex(l, <<>>)
    \/ \E l \in Latex : calls = 0 /\ render_direct(l)
    \/ RenderEnter
    \/ SendLen
    \/ SendBody
    \/ RecvLen
    \/ LoopCheck
    \/ RecvInto
    \/ RenderReturn
    \/ WorkerRespond
    \/ WorkerExits(RENDER_SERVER)
    \/ WorkerDiesMidFrame

FairSpecRender ==
    InitRender /\ [][NextFirstCall]_vars /\ WF_vars(ClientStep) /\ SF_vars(TimePasses)

(***************************************************************************)
(* SpecFaults: Spec, and self.sock.close() can fail.                       *)
(***************************************************************************)
\* stop(self) is invoked and its first statement, self.sock.close(), raises
\* OSError: the exception leaves stop.  The socket object counts as closed.
StopCloseRaises(h) ==
    /\ stopCalls' = [stopCalls EXCEPT ![h] = @ + 1]
    /\ cur' = h
    /\ sockState' = [sockState EXCEPT ![h] = "closed"]
    /\ outcome' = Outcome("stop", "close", h, Raise("OSError", <<"close failed">>))
    /\ UNCHANGED << renderVars, outside, RENDER_SERVER, started, procState, rundirs,
                    transportUp, termRequested, atexitHooks, exitPhase,
                    startup_start, pc, callArgs, now >>

\* The program's stop, with a close that fails.
StopCloseFails ==
    /\ pc = "idle"
    /\ exitPhase = "running"
    /\ RENDER_SERVER # None
    /\ stopCalls[RENDER_SERVER] < MaxStops
    /\ StopCloseRaises(RENDER_SERVER)
    /\ UNCHANGED hooksLeft

\* The atexit hook's stop, with a close that fails.
HookCloseFails ==
    /\ pc = "idle"
    /\ exitPhase = "hooks"
    /\ hooksLeft # <<>>
    /\ StopCloseRaises(hooksLeft[Len(hooksLeft)])
    /\ hooksLeft' = SubSeq(hooksLeft, 1, Len(hooksLeft) - 1)

NextFaults ==
    \/ Next
    \/ StopCloseFails
    \/ HookCloseFails

SpecFaults == Init /\ [][NextFaults]_vars

(***************************************************************************)
(* SpecOptions: render_latex called with options, on a started server.     *)
(* (Spec and SpecRender make every call with options=None.)                *)
(***************************************************************************)
NextOptions ==
    \/ \E l \in Latex, o \in CallerOptions : render_latex(l, o)
    \/ RenderStep

SpecOptions == InitRender /\ [][NextOptions]_vars

(***************************************************************************)
(* SpecMarkdown: KatexPattern applied to one text by the Markdown inline   *)
(* processor, on a started server.                                         *)
(***************************************************************************)
\* The characters of the texts: the dollar, a blank, a newline, a word
\* character and the at sign.
MdAlphabet == { "$", " ", "\n", "x", "@" }

\* The placeholder the inline processor puts in the text for a stashed node:
\* it begins and ends with a control character and has no dollar in it.
PH == "PH"

Texts == UNION { [1..n -> MdAlphabet] : n \in 0..MaxText }

\* The character at offset i of d (offsets count from 0, as in Python).
At(d, i) == d[i + 1]

\* \s and \w of the pattern.
IsSpace(c) == c \in { " ", "\n" }
IsWord(c) == c = "x"

\* PATTERN from the delimiter on: the delimiter of dl dollars is at offset p;
\* latex is [\S\n].*? from offset p + dl, as short as it can be; the same
\* delimiter closes it and is followed by \W or by the end of the text.
TryDelimiter(d, p, dl) ==
    LET q == p + dl
        Ks == { k \in 0..(Len(d) - q - 1) :
                  /\ ~IsSpace(At(d, q)) \/ At(d, q) = "\n"
                  /\ \A j \in 1..k : At(d, q + j) # "\n"
                  /\ q + 1 + k + dl <= Len(d)
                  /\ \A j \in 0..(dl - 1) : At(d, q + 1 + k + j) = "$"
                  /\ \/ q + 1 + k + dl = Len(d)
                     \/ ~IsWord(At(d, q + 1 + k + dl)) }
        k0 == CHOOSE k \in Ks : \A k2 \in Ks : k <= k2
    IN  IF Ks = {} THEN [ok |-> FALSE, delimiter |-> 0, latex |-> <<>>, end |-> 0]
        ELSE [ok |-> TRUE, delimiter |-> dl,
              latex |-> SubSeq(d, q + 1, q + 1 + k0), end |-> q + 1 + k0 + dl]

\* PATTERN matched at offset s: (?P<preceding>\s?) takes a whitespace
\* character that is there, (?P<delimiter>\$\$?) takes two dollars before it
\* tries one.
MatchAt(d, s) ==
    LET pre == IF s < Len(d) /\ IsSpace(At(d, s)) THEN 1 ELSE 0
        p == s + pre
        two == IF p + 1 < Len(d) /\ At(d, p + 1) = "$"
               THEN TryDelimiter(d, p, 2)
               ELSE [ok |-> FALSE, delimiter |-> 0, latex |-> <<>>, end |-> 0]
        r == IF two.ok THEN two ELSE TryDelimiter(d, p, 1)
    IN  IF p < Len(d) /\ At(d, p) = "$" /\ r.ok
        THEN [ok |-> TRUE, start |-> s, preceding |-> pre,
              delimiter |-> r.delimiter, latex |-> r.latex, end |-> r.end]
        ELSE [ok |-> FALSE, start |-> 0, preceding |-> 0,
              delimiter |-> 0, latex |-> <<>>, end |-> 0]

\* The first match of PATTERN in d at or after offset pos
\* (pattern.finditer(data, startIndex)).
Search(d, pos) ==
    LET S == { s \in pos..(Len(d) - 1) : MatchAt(d, s).ok }
    IN  IF S = {} THEN MatchAt(d, Len(d))
        ELSE MatchAt(d, CHOOSE s \in S : \A s2 \in S : s <= s2)

\* KatexPattern.handleMatch(m, data): what it does with the match (it skips
\* it, pushes a preamble, or renders), the node it returns (None, the empty
\* string, or the element parsed from the rendering), the span it returns,
\* and the arguments of its call.
handleMatchConsumesMatch(m) ==
    IF m.preceding = 0 /\ m.start > 0
    THEN [kind |-> "skip", node |-> "None", from |-> m.start, start |-> m.end, end |-> m.end,
          latex |-> <<>>, display |-> FALSE, mend |-> m.end]
    ELSE IF m.delimiter = 2 /\ Len(m.latex) > 0 /\ m.latex[1] = "@"
    THEN [kind |-> "preamble", node |-> "", from |-> m.start, start |-> m.start + m.preceding,
          end |-> m.end, latex |-> Tail(m.latex), display |-> FALSE, mend |-> m.end]
    ELSE [kind |-> "render", node |-> "Element", from |-> m.start, start |-> m.start + m.preceding,
          end |-> m.end, latex |-> m.latex, display |-> (m.delimiter = 2), mend |-> m.end]
handleMatchPreambleAnyDelimiter(m) ==
    IF m.preceding = 0 /\ m.start > 0
    THEN [kind |-> "skip", node |-> "None", from |-> m.start, start |-> m.start + 1, end |-> m.start + 1,
          latex |-> <<>>, display |-> FALSE, mend |-> m.end]
    ELSE IF Len(m.latex) > 0 /\ m.latex[1] = "@"
    THEN [kind |-> "preamble", node |-> "", from |-> m.start, start |-> m.start + m.preceding,
          end |-> m.end, latex |-> Tail(m.latex), display |-> FALSE, mend |-> m.end]
    ELSE [kind |-> "render", node |-> "Element", from |-> m.start, start |-> m.start + m.preceding,
          end |-> m.end, latex |-> m.latex, display |-> (m.delimiter = 2), mend |-> m.end]
handleMatch(m) ==
    IF m.preceding = 0 /\ m.start > 0
    THEN [kind |-> "skip", node |-> "None", from |-> m.start, start |-> m.start + 1, end |-> m.start + 1,
          latex |-> <<>>, display |-> FALSE, mend |-> m.end]
    ELSE IF m.delimiter = 2 /\ Len(m.latex) > 0 /\ m.latex[1] = "@"
    THEN [kind |-> "preamble", node |-> "", from |-> m.start, start |-> m.start + m.preceding,
          end |-> m.end, latex |-> Tail(m.latex), display |-> FALSE, mend |-> m.end]
    ELSE [kind |-> "render", node |-> "Element", from |-> m.start, start |-> m.start + m.preceding,
          end |-> m.end, latex |-> m.latex, display |-> (m.delimiter = 2), mend |-> m.end]

\* The inline processor stashes the node and puts its placeholder in the
\* place of data[start:end].
Stash(d, start, end) == SubSeq(d, 1, start) \o <<PH>> \o SubSeq(d, end + 1, Len(d))

\* The inline processor applies the pattern from startIndex on: without a
\* match the pattern is done with the text; with one, handleMatch is called.
\* A node of None leaves the text as it is and the next search begins at the
\* end handleMatch returned; any other node is stashed and the search begins
\* again at 0.  To render, handleMatch calls render_latex.
ApplyPattern ==
    /\ mdpc = "scan"
    /\ LET m == Search(data, startIndex)
           r == handleMatch(m)
       IN  IF ~m.ok
           THEN /\ mdpc' = "done"
                /\ UNCHANGED << data, startIndex, match, passed, pushed, requests,
                                config, serverVars, callVars, renderVars >>
           ELSE /\ match' = r
                /\ passed' = match
                /\ CASE r.kind = "skip" ->
                          /\ startIndex' = r.end
                          /\ UNCHANGED << data, mdpc, pushed, requests,
                                          config, serverVars, callVars, renderVars >>
                     [] r.kind = "preamble" ->
                          /\ pushed' = Append(pushed, r.latex)
                          /\ data' = Stash(data, r.start, r.end)
                          /\ startIndex' = 0
                          /\ UNCHANGED << mdpc, requests,
                                          config, serverVars, callVars, renderVars >>
                     [] r.kind = "render" ->
                          /\ render_latex_call(r.latex, << [displayMode |-> r.display] >>)
                          /\ requests' = requests + 1
                          /\ mdpc' = "call"
                          /\ UNCHANGED << data, startIndex, pushed >>

\* render_latex has returned or raised in handleMatch.  The exception leaves
\* handleMatch; the rendered text is parsed (ElementTree.fromstring), which
\* raises for a text that is not well-formed, and the node is returned and
\* stashed.
HandleMatchReturn ==
    /\ mdpc = "call"
    /\ pc = "idle"
    /\ \/ /\ outcome.result.kind = "return"
          /\ data' = Stash(data, match.start, match.end)
          /\ startIndex' = 0
          /\ mdpc' = "scan"
       \/ /\ mdpc' = "raised"
          /\ UNCHANGED << data, startIndex >>
    /\ UNCHANGED << match, passed, pushed, requests,
                    config, serverVars, callVars, renderVars >>

\* KatexBlock.run(self) with the lines of self.content joined to content and
\* with or without the option preamble: it refuses a directive without
\* content, pushes a preamble and returns no node, or renders in display
\* mode.
KatexBlock_run(content, preamble) ==
    IF content = <<>>
    THEN [kind |-> "block_empty", node |-> "None", from |-> 0, start |-> 0, end |-> 0,
          latex |-> <<>>, display |-> FALSE, mend |-> 0]
    ELSE IF preamble
    THEN [kind |-> "block_preamble", node |-> "[]", from |-> 0, start |-> 0, end |-> 0,
          latex |-> content, display |-> FALSE, mend |-> 0]
    ELSE [kind |-> "block_render", node |-> "[raw]", from |-> 0, start |-> 0, end |-> 0,
          latex |-> content, display |-> TRUE, mend |-> 0]

\* The contents of a directive.
BlockContents == UNION { [1..n -> MdAlphabet] : n \in 0..MaxBlock }

\* docutils runs a KatexBlock directive.
KatexBlockRun ==
    /\ mdpc = "block"
    /\ \E content \in BlockContents, preamble \in BOOLEAN :
         LET r == KatexBlock_run(content, preamble)
         IN  /\ data' = content
             /\ match' = r
             /\ CASE r.kind = "block_empty" ->
                       /\ mdpc' = "raised"
                       /\ UNCHANGED << pushed, requests,
                                       config, serverVars, callVars, renderVars >>
                  [] r.kind = "block_preamble" ->
                       /\ pushed' = Append(pushed, r.latex)
                       /\ mdpc' = "done"
                       /\ UNCHANGED << requests,
                                       config, serverVars, callVars, renderVars >>
                  [] r.kind = "block_render" ->
                       /\ render_latex_call(r.latex, << [displayMode |-> r.display] >>)
                       /\ requests' = requests + 1
                       /\ mdpc' = "block_call"
                       /\ UNCHANGED pushed
    /\ UNCHANGED << startIndex, passed >>

\* render_latex has returned or raised in run: run returns the raw node, or
\* raises self.error for a KaTeXError, or the exception leaves it.
KatexBlockReturn ==
    /\ mdpc = "block_call"
    /\ pc = "idle"
    /\ mdpc' = IF outcome.result.kind = "return" THEN "done" ELSE "raised"
    /\ UNCHANGED << data, startIndex, match, passed, pushed, requests,
                    config, serverVars, callVars, renderVars >>

\* Markdown's inline processor is about to convert a text with KatexPattern,
\* or docutils is about to run a KatexBlock directive.
InitMarkdown ==
    /\ InitServer
    /\ \/ mdpc = "scan" /\ data \in Texts
       \/ mdpc = "block" /\ data = <<>>
    /\ startIndex = 0
    /\ match = NoMatch
    /\ passed = NoMatch
    /\ pushed = <<>>
    /\ requests = 0

NextMarkdown ==
    \/ ApplyPattern
    \/ RenderStep
    \/ HandleMatchReturn
    \/ KatexBlockRun
    \/ KatexBlockReturn

SpecMarkdown == InitMarkdown /\ [][NextMarkdown]_vars

(***************************************************************************)
(* Properties of the life cycle (Spec, FairSpec).                          *)
(***************************************************************************)
Running == { i \in Ids : procState[i] = "running" }

\* C1: at any time at most one worker exists: at most one worker process
\* runs and at most one temp directory is there, whatever calls of
\* render_latex were made before, failed starts included.
C1_AtMostOneWorker ==
    /\ Cardinality(Running) <= 1
    /\ Cardinality(rundirs) <= 1

\* C2: when get hands the stored handle to render_latex, that handle is live:
\* its worker process runs and its socket is open.
C2_GetReturnsLiveHandle ==
    [][(pc = "idle" /\ pc' = "render") => Live(cur')]_vars

\* C3: a second (or later) stop on a handle does not raise, and after it the
\* worker process does not run and the temp directory is absent.
C3_StopIdempotent ==
    (pc = "idle" /\ outcome.op = "stop" /\ stopCalls[outcome.handle] >= 2)
    => /\ outcome.result.kind = "return"
       /\ procState[outcome.handle] # "running"
       /\ outcome.handle \notin rundirs

\* C4: render_latex returns markup or raises KaTeXError; no exception of any
\* other type leaves it.
C4_OnlyKaTeXErrorEscapes ==
    outcome.op = "render_latex"
    => \/ outcome.result.kind = "return"
       \/ outcome.result.type = "KaTeXError"

\* C5: a start that gives up for the startup timeout raises the KaTeXError
\* whose message carries the timeout's value and names KATEX_STARTUP_TIMEOUT.
C5_StartupTimeoutIsKaTeXError ==
    outcome.cause = "startup_timeout"
    => outcome.result =
         KaTeXError(Format(STARTUP_TIMEOUT_EXPIRED_TEMPLATE,
                           <<ToString(KATEX_STARTUP_TIMEOUT)>>))

Polling == pc \in {"unix_poll", "net_poll"}

\* C6: while start polls for a transport the worker has not created, no more
\* than the startup timeout and one polling interval have elapsed; it gives up for the timeout when the
\* timeout has elapsed and at most one polling interval more; and it does not
\* poll for ever: the worker creates the transport after all, or start fails.
C6_StartGivesUp ==
    /\ [](Polling /\ cur \notin transportUp
            => now - startup_start <= KATEX_STARTUP_TIMEOUT + MaxSleep)
    /\ [](pc = "idle" /\ outcome.cause = "startup_timeout"
            => /\ now - startup_start >= KATEX_STARTUP_TIMEOUT
               /\ now - startup_start <= KATEX_STARTUP_TIMEOUT + MaxSleep)
    /\ ((Polling /\ cur \notin transportUp)
            ~> (cur \in transportUp \/ (pc = "idle" /\ outcome.op = "render_latex"
                                        /\ outcome.result.kind = "raise")))

\* C6: start has given up for a worker that never created its transport, one
\* polling interval after the timeout was over.
C6_Witness ==
    /\ pc = "idle"
    /\ outcome.cause = "startup_timeout"
    /\ cur \notin transportUp
    /\ now - startup_start > KATEX_STARTUP_TIMEOUT

InStop == pc \in {"stop_terminate", "stop_wait", "stop_kill", "stop_rmtree"}

\* C15: stop goes through its statements in the order close, terminate,
\* wait, kill if need be, rmtree: the socket is closed from the first of them
\* on; kill follows only a wait at whose end the process still ran; the temp
\* directory is removed by the last statement only, after terminate and the
\* wait, when the process does not run any more.
C15_StopOrder ==
    /\ [](InStop => sockState[cur] = "closed")
    /\ [][pc' # pc =>
            /\ pc' = "stop_terminate" => pc = "idle"
            /\ pc' = "stop_wait" => pc = "stop_terminate"
            /\ pc' = "stop_kill" => (pc = "stop_wait" /\ procState[cur] = "running")
            /\ pc' = "stop_rmtree" =>
                 \/ pc = "stop_wait" /\ procState[cur] # "running"
                 \/ pc = "stop_kill" /\ procState'[cur] = "exited"
            /\ pc = "stop_rmtree" => pc' = "idle"]_vars
    /\ [][rundirs' # rundirs /\ ~(rundirs \subseteq rundirs')
            => /\ pc = "stop_rmtree"
               /\ rundirs' = rundirs \ {cur}
               /\ procState[cur] # "running"]_vars

\* C15: the process outlived the grace period: the socket is closed,
\* termination was requested, the directory is still there and kill is next.
C15_Witness ==
    /\ pc = "stop_kill"
    /\ procState[cur] = "running"
    /\ cur \in termRequested
    /\ sockState[cur] = "closed"
    /\ cur \in rundirs

\* C16: no socket is open once the termination of its process was
\* requested, and when a stop has ended, also one whose close failed, the
\* worker process of its handle does not run.
C16_ReleasedTogether ==
    /\ \A i \in termRequested : sockState[i] = "closed"
    /\ (pc = "idle" /\ outcome.op = "stop")
         => procState[outcome.handle] # "running"

\* C17: a handle is registered with atexit once, stop runs at most once
\* for a handle, and after an orderly exit it has run exactly once for every
\* handle start returned.
C17_StopRunsOnce ==
    /\ \A j, k \in 1..Len(atexitHooks) : atexitHooks[j] = atexitHooks[k] => j = k
    /\ \A i \in Ids : stopCalls[i] <= 1
    /\ exitPhase = "exited"
         => \A i \in Ids : stopCalls[i] = (IF sockState[i] # "none" THEN 1 ELSE 0)

\* C18: after an orderly exit of the process no worker process that was
\* spawned runs and no temp directory that was created is left.
C18_NothingLeftAtExit ==
    exitPhase = "exited" => (Running = {} /\ rundirs = {})

(***************************************************************************)
(* Properties of a render call (SpecRender).                               *)
(***************************************************************************)
Ended == pc = "idle" /\ outcome.op = "render_latex"

\* C7: a render_latex call whose channel timed out, at whichever blocking
\* step, raises KaTeXError; the message holds the input text and advises to
\* increase KATEX_RENDER_TIMEOUT.
C7_TimeoutNamesInput ==
    (Ended /\ outcome.cause = "socket_timeout")
    => /\ outcome.at \in {"send_len", "send_body", "recv_len", "loop", "recv_into"}
       /\ outcome.result.kind = "raise"
       /\ outcome.result.type = "KaTeXError"
       /\ outcome.result.val =
            <<"Rendering ">> \o latex
              \o <<" took too long. Consider increasing KATEX_RENDER_TIMEOUT">>

\* C7: the read of the payload timed out for an input of two characters.
C7_Witness ==
    /\ Ended
    /\ outcome.cause = "socket_timeout"
    /\ outcome.at = "recv_into"
    /\ Len(prefix) = LENGTH_SIZE
    /\ Len(latex) = 2

\* C8: the decoded response is mapped: with "html", the call returns that
\* value as it is; with "error" and no "html", it raises KaTeXError with the
\* worker's message and nothing else; with neither, it raises an error that
\* is not the timeout's error.
C8_ResponseMapping ==
    (Ended /\ outcome.cause = "response")
    => /\ "html" \in DOMAIN response
            => outcome.result = [kind |-> "return", type |-> "str", val |-> response.html]
       /\ ("html" \notin DOMAIN response /\ "error" \in DOMAIN response)
            => outcome.result = [kind |-> "raise", type |-> "KaTeXError",
                                 val |-> response.error]
       /\ ("html" \notin DOMAIN response /\ "error" \notin DOMAIN response)
            => /\ outcome.result.kind = "raise"
               /\ outcome.result.type = "KaTeXError"
               /\ outcome.result.val = <<"Unknown response from KaTeX renderer">>
               /\ outcome.result # OnSocketTimeout(latex)

\* C8: the worker reported an error and the call raised it.
C8_Witness ==
    /\ Ended
    /\ outcome.cause = "response"
    /\ DOMAIN response = {"error"}
    /\ outcome.result.type = "KaTeXError"
    /\ outcome.result.val = response.error

\* The next byte of the connection is the first of a frame, or nothing is
\* left to read.
AtFrameBoundary ==
    frames = <<>> \/ Head(frames).left = Len(Frame(Head(frames).obj))

\* C9: a call that read the length prefix of a frame from its first byte and
\* went through the payload loop has the frame's payload, byte for byte, in
\* the first bytes of the buffer, decoded the object the worker sent, and
\* read no byte beyond the frame; however the payload was split into reads,
\* whatever the buffer's capacity and earlier contents.
C9_FramingRoundTrip ==
    (pc = "idle" /\ outcome.op \in {"render", "render_latex"}
       /\ callFrame.aligned /\ outcome.cause \in {"response", "decode"})
    => /\ outcome.cause = "response"
       /\ response = callFrame.obj
       /\ ViewSlice(buffer, Len(Payload(callFrame.obj))) = Payload(callFrame.obj)
       /\ AtFrameBoundary

\* C9: a payload that came in several reads was decoded from a buffer larger
\* than the payload that still holds bytes of an earlier, longer response.
C9_Witness ==
    /\ pc = "idle"
    /\ callFrame.aligned
    /\ outcome.cause = "response"
    /\ response = callFrame.obj
    /\ reads >= 2
    /\ buffer.cap > Len(Payload(callFrame.obj))
    /\ Len(buffer.data) > Len(Payload(callFrame.obj))

\* C10: whenever render has read a length prefix, it has read all four bytes
\* of it, and the length it works with is the one the frame declares.
C10_PrefixReadWhole ==
    prefix # <<>>
    => /\ Len(prefix) = LENGTH_SIZE
       /\ callFrame.aligned => Unpack(prefix) = Len(Payload(callFrame.obj))

Blocking == pc \in {"send_len", "send_body", "recv_len", "recv_into"}

\* C11: in a render with a timeout, the socket timeout in force at every
\* blocking step is no more than what is left of the timeout since the call
\* began, and a call that ends for a timeout has not lasted two timeouts.
C11_StepsShareOneBudget ==
    /\ (Blocking /\ timeout # <<>>)
         => sockTimeout[1] <= timeout[1] - (now - start_time)
    /\ (Ended /\ outcome.cause = "socket_timeout")
         => outcome.took < 2 * KATEX_RENDER_TIMEOUT

\* C12: with a timeout, every read of the payload loop is made under a socket
\* timeout of exactly the timeout minus the time elapsed since the call began,
\* which is positive; and the loop's head, with bytes still to come, either
\* goes on to such a read or ends the call with the timeout error, the
\* timeout having elapsed.
C12_LoopRecomputesBudget ==
    /\ []((pc = "recv_into" /\ timeout # <<>>)
            => /\ sockTimeout = << timeout[1] - (now - start_time) >>
               /\ sockTimeout[1] > 0)
    /\ [][(pc = "loop" /\ pc' # "loop" /\ remaining > 0 /\ timeout # <<>>)
            => \/ /\ pc' = "recv_into"
                  /\ now' - start_time < timeout[1]
               \/ /\ pc' = "idle"
                  /\ outcome'.cause = "socket_timeout"
                  /\ outcome'.at = "loop"
                  /\ outcome'.took >= timeout[1]]_vars

\* C12: a second read of the payload is about to be made, some time into the
\* call, under less than the whole timeout.
C12_Witness ==
    /\ pc = "recv_into"
    /\ timeout # <<>>
    /\ reads >= 1
    /\ now - start_time > 0
    /\ sockTimeout[1] < timeout[1]

\* C13: the capacity of the receive buffer never decreases; when render has
\* read a length that exceeds the capacity the buffer is replaced by one of
\* exactly that length, otherwise it is kept as it is; and while the payload
\* is read the capacity is at least the declared length.
C13_BufferCapacity ==
    /\ [][buffer'.cap >= buffer.cap]_vars
    /\ [][(pc = "recv_len" /\ pc' = "loop")
            => IF length' > buffer.cap
               THEN buffer' = [cap |-> length', data |-> <<>>]
               ELSE buffer' = buffer]_vars
    /\ [](pc \in {"loop", "recv_into"} => buffer.cap >= length)

\* C13: a second call reads a payload shorter than the buffer, which an
\* earlier response made grow beyond its first capacity.
C13_Witness ==
    /\ pc = "recv_into"
    /\ calls = 2
    /\ buffer.cap > BUFFER_INITIAL
    /\ length < buffer.cap
    /\ length > 0

\* C19: when render has begun to send a request, no earlier request is
\* still with the worker and no byte of an earlier response is unread.
C19_LockStep ==
    pc = "send_body" => (Len(toWorker) = 1 /\ inflight = <<>>)

\* C20, as stated: every render_latex call that has ended wrote exactly one
\* request frame.
C20_ExactlyOneFrame ==
    (pc = "idle" /\ outcome.op = "render_latex") => written = 1

\* C20, amended: a call writes at most one request frame, and exactly one
\* once it is past the sends; a request is handed to the connection by the
\* prefix send only, one at a time; no step replaces the handle, starts a
\* process or touches the socket, and a process only ever goes from running
\* to exited; the step that ends a call leaves the requests on the connection
\* as they are.
C20_NoRetry ==
    /\ [](written <= 1)
    /\ []((pc \in {"recv_len", "loop", "recv_into"}
           \/ (pc = "idle" /\ outcome.at \in {"recv_len", "loop", "recv_into"}))
            => written = 1)
    /\ [][Len(toWorker') > Len(toWorker)
            => (pc = "send_len" /\ Len(toWorker') = Len(toWorker) + 1)]_vars
    /\ [][/\ RENDER_SERVER' = RENDER_SERVER
          /\ nStarted' = nStarted
          /\ sockState' = sockState
          /\ rundirs' = rundirs
          /\ \A i \in Ids : procState'[i] # procState[i]
                => (procState[i] = "running" /\ procState'[i] = "exited")]_vars
    /\ [][(pc # "idle" /\ pc' = "idle")
            => (toWorker' = toWorker /\ procState' = procState)]_vars

\* C20: a call ended for a timeout after it wrote its one request; the handle
\* is the one it was, its process runs and its socket is open.
C20_Witness ==
    /\ Ended
    /\ outcome.cause = "socket_timeout"
    /\ written = 1
    /\ cur = RENDER_SERVER
    /\ Live(RENDER_SERVER)

(***************************************************************************)
(* Properties of the options (SpecOptions).                                *)
(***************************************************************************)
\* C14: KATEX_DEFAULT_OPTIONS stays as the module defines it; the options of
\* a call's request are the defaults, each key overridden by the options of
\* that call when they have it (throwOnError is false unless they do), and
\* hold no key that is neither a default nor given to that call.
C14_DefaultsNeverMutated ==
    /\ KATEX_DEFAULT_OPTIONS = [throwOnError |-> FALSE]
    /\ DOMAIN katex_options =
         {"throwOnError"} \cup (IF options = <<>> THEN {} ELSE DOMAIN options[1])
    /\ \A k \in DOMAIN katex_options :
         katex_options[k] =
           IF options # <<>> /\ k \in DOMAIN options[1]
           THEN options[1][k]
           ELSE FALSE

\* C14: a call without options follows a call that overrode throwOnError,
\* and its request has the default.
C14_Witness ==
    /\ pc = "render"
    /\ options = <<>>
    /\ lastOptions = << [throwOnError |-> TRUE] >>
    /\ katex_options = [throwOnError |-> FALSE]

(***************************************************************************)
(* The claims about a render without a deadline.                           *)
(***************************************************************************)
\* C21: a render call with timeout None has no deadline: while it is in a
\* blocking step the socket has no timeout, whatever the earlier calls left on
\* it, and the call never ends with socket.timeout.
C21_NoDeadline ==
    /\ (via = "render" /\ Blocking) => (timeout = <<>> /\ sockTimeout = <<>>)
    /\ (pc = "idle" /\ outcome.op = "render")
          => (outcome.cause # "socket_timeout"
              /\ outcome.result.type # "socket.timeout")

\* A render with timeout None that followed a call with a finite timeout has
\* returned the worker's response.
C21_Witness ==
    /\ pc = "idle"
    /\ outcome.op = "render"
    /\ outcome.cause = "response"
    /\ timeout = <<>>
    /\ lastTimeout # <<>>

(***************************************************************************)
(* The claims about the spawn command line.                                *)
(***************************************************************************)
\* The arguments of command line c that follow the flag f.
ArgsAfter(c, f) == { c[k + 1] : k \in { j \in 1..(Len(c) - 1) : c[j] = f } }

\* How often the flag f is in command line c.
Count(c, f) == Cardinality({ j \in 1..Len(c) : c[j] = f })

Spawned == { i \in Ids : cmd[i] # <<>> }

\* C22 as stated: the command line has one transport argument chosen by the
\* platform and has the argument --katex-path <path> if and only if KATEX_PATH
\* is configured.
C22_EnginePathFlag ==
    \A i \in Spawned :
        /\ Count(cmd[i], <<"--socket">>) + Count(cmd[i], <<"--port">>) = 1
        /\ (KATEX_PATH # <<>>) <=> (Count(cmd[i], <<"--katex-path">>) = 1)

\* C22: the command line of every spawned worker begins with the binary and
\* the script and has exactly one transport argument: --socket with the path
\* katex.sock in the start's own temp directory on posix, --port with the
\* port free_port returned otherwise; it has --katex <KATEX_PATH> if and only
\* if KATEX_PATH is neither None nor empty, and nothing else; it is written
\* in the step that makes the temp directory and never changes.
C22_SpawnCommand ==
    /\ [](\A i \in Spawned :
            /\ SubSeq(cmd[i], 1, 2) = << KATEX_NODEJS_BINARY, SCRIPT_PATH >>
            /\ Count(cmd[i], <<"--socket">>) = (IF posix THEN 1 ELSE 0)
            /\ Count(cmd[i], <<"--port">>) = (IF posix THEN 0 ELSE 1)
            /\ posix => /\ cmd[i][3] = <<"--socket">>
                        /\ cmd[i][4] = Append(rundir(i), "katex.sock")
            /\ ~posix => /\ cmd[i][3] = <<"--port">>
                         /\ \E p \in free_port : cmd[i][4] = <<Str(p)>>
            /\ Count(cmd[i], <<"--katex">>) = (IF Truthy(KATEX_PATH) THEN 1 ELSE 0)
            /\ Truthy(KATEX_PATH) => ArgsAfter(cmd[i], <<"--katex">>) = {KATEX_PATH[1]}
            /\ Len(cmd[i]) = (IF Truthy(KATEX_PATH) THEN 6 ELSE 4))
    /\ [][\A i \in Ids :
            /\ cmd[i] # <<>> => cmd'[i] = cmd[i]
            /\ (cmd[i] = <<>> /\ cmd'[i] # <<>>)
                 => (i \notin rundirs /\ i \in rundirs' /\ procState[i] = "none"
                     /\ procState'[i] = "running")]_vars
    /\ [][posix' = posix /\ KATEX_PATH' = KATEX_PATH]_vars

\* Two workers were spawned with a configured KATEX_PATH.
C22_Witness ==
    /\ Truthy(KATEX_PATH)
    /\ Cardinality(Spawned) = 2
    /\ pc = "idle"
    /\ RENDER_SERVER # None

(***************************************************************************)
(* The claims about the Markdown inline scan (SpecMarkdown).               *)
(***************************************************************************)
\* The dollars of a text.
Dollars(d) == Cardinality({ i \in 1..Len(d) : d[i] = "$" })

\* What is left of a scan: the dollars of the text before the characters
\* still to search, a scan in handleMatch's render call being further than
\* one about to search.
Measure ==
    IF mdpc \in {"scan", "call"}
    THEN 1 + (IF mdpc = "scan" THEN 1 ELSE 0) + 2 * (Len(data) - startIndex)
           + 2 * (MaxText + 2) * Dollars(data)
    ELSE 0

\* A match at offset s that handleMatch accepts: at the start of the text or
\* with a whitespace character before the delimiter.
Genuine(d, s) == MatchAt(d, s).ok /\ (s = 0 \/ MatchAt(d, s).preceding = 1)

\* The delimiter of the next match is after offset 0 and the character
\* before it is no whitespace.
NextMatchUnspaced ==
    LET m == Search(data, startIndex)
        p == m.start + m.preceding
    IN  mdpc = "scan" /\ m.ok /\ p > 0 /\ ~IsSpace(At(data, p - 1))

NextMatchAccepted ==
    LET m == Search(data, startIndex)
    IN  mdpc = "scan" /\ m.ok /\ (m.start = 0 \/ m.preceding = 1)

C25_ConnectReportsStartupTimeout ==
    (pc = "idle" /\ outcome.op = "render_latex"
       /\ outcome.at = "unix_connect" /\ outcome.result.kind = "raise")
    => outcome.result = timeout_error(<<KATEX_STARTUP_TIMEOUT>>)

(***************************************************************************)
(* The claim about a connection closed in the middle of a frame            *)
(* (FairSpecRender).                                                       *)
(***************************************************************************)
\* C26: when the worker has closed the connection while bytes of the payload
\* remain to be read, the call ends, with a timeout and without one
\* (the read loop does not go on for ever).
C26_EndOfStreamEnds ==
    []((pc \in {"loop", "recv_into"} /\ remaining > 0 /\ EndOfStream)
         => <>(pc = "idle"))

(***************************************************************************)
(* The claim about which request a response answers (SpecRender).          *)
(***************************************************************************)
\* C27: the response a render_latex call returns, or raises the worker's
\* error from, is the frame the worker wrote in answer to the request of
\* this call.
C27_AnswersOwnRequest ==
    (pc = "idle" /\ outcome.op = "render_latex" /\ outcome.cause = "response")
    => (callFrame.aligned /\ callFrame.call = calls)
====
